---- MODULE Spec2Model ----
(***************************************************************************)
(* OrientPy: the complementary filter (src/src/filter.py) and the          *)
(* orientation processor built on it (src/src/processor.py).               *)
(*                                                                         *)
(* Numbers.  The program computes in MicroPython floats: every arithmetic  *)
(* operation yields the representable value nearest the exact result       *)
(* (ties to even).  A float is modelled as [m, e], the value m * 2^e, m    *)
(* odd or zero, |m| < 2^Precision; each operation computes the exact       *)
(* result and rounds it.  Precision is the significand width; it is kept   *)
(* narrow so that TLC's integers hold every intermediate.  The exponent    *)
(* is unbounded (no overflow to infinity, no underflow).                   *)
(*                                                                         *)
(* Time.  utime.ticks_ms() is a millisecond counter that wraps at          *)
(* TICKS_PERIOD; utime.ticks_diff(a, b) is the signed difference of two    *)
(* ticks values in [-TICKS_PERIOD/2, TICKS_PERIOD/2).  The variable clock  *)
(* is the real number of milliseconds since boot.                          *)
(* A call is one step: the ticks_ms() reads made within one call           *)
(* (should_update, Processor.update, Filter.update) return the same value. *)
(***************************************************************************)
EXTENDS Integers, Sequences, FiniteSets, TLC

(* ------------------------------ bounds -------------------------------- *)

\* Significand bits of a float.
Precision == 8

\* Calls made on a filter that stands alone.
MaxFilterCalls == 2

\* Calls made on a processor.
MaxProcCalls == 3

\* Largest sample count given to calibrate_gyro.
MaxSamples == 3

(* ------------------------------ floats -------------------------------- *)

Pow2(k) == 2 ^ k

RECURSIVE BitLen(_)
BitLen(n) == IF n = 0 THEN 0 ELSE 1 + BitLen(n \div 2)

Abs(n) == IF n < 0 THEN -n ELSE n

Max(a, b) == IF a >= b THEN a ELSE b

Min(a, b) == IF a <= b THEN a ELSE b

RECURSIVE Norm(_, _)
Norm(m, e) ==
    IF m = 0 THEN [m |-> 0, e |-> 0]
    ELSE IF m % 2 = 0 THEN Norm(m \div 2, e + 1)
    ELSE [m |-> m, e |-> e]

\* n * 2^e with the low s bits of n rounded away, ties to even (sticky: a
\* positive excess below one unit of n).
RoundShift(n, e, sticky, s) ==
    [m |-> IF /\ s > 0
              /\ \/ n % Pow2(s) > Pow2(s - 1)
                 \/ /\ n % Pow2(s) = Pow2(s - 1)
                    /\ (sticky \/ (n \div Pow2(s)) % 2 = 1)
           THEN n \div Pow2(s) + 1
           ELSE n \div Pow2(s),
     e |-> e + s]

\* n * 2^e (n a natural, plus a positive excess below one unit of n when
\* sticky) rounded to Precision bits, ties to even, as a magnitude.
RoundNat(n, e, sticky) == RoundShift(n, e, sticky, Max(0, BitLen(n) - Precision))

\* The magnitude v with its sign, in normal form.
Signed(neg, v) == Norm(IF neg THEN -v.m ELSE v.m, v.e)

RoundInt(n, e) == Signed(n < 0, RoundNat(Abs(n), e, FALSE))

\* (a / b) * 2^e for naturals a, b > 0, rounded: a is scaled up until the
\* quotient carries two bits more than the significand.
RECURSIVE RoundRat(_, _, _)
RoundRat(a, b, e) ==
    IF a = 0 THEN [m |-> 0, e |-> 0]
    ELSE IF a \div b >= Pow2(Precision + 1)
         THEN RoundNat(a \div b, e, a % b # 0)
         ELSE RoundRat(2 * a, b, e - 1)

FromInt(n) == RoundInt(n, 0)

\* A decimal literal n / d of the source, as the parser rounds it.
Lit(n, d) == Signed(n < 0, RoundRat(Abs(n), d, 0))

Zero == [m |-> 0, e |-> 0]

One == [m |-> 1, e |-> 0]

\* Exponent of the leading bit of a non-zero float.
Top(x) == x.e + BitLen(Abs(x.m)) - 1

FNeg(x) == [m |-> -x.m, e |-> x.e]

\* x + y for floats whose leading bits are at tx and ty.
AddAligned(x, y, tx, ty, e) ==
    IF ty <= tx - Precision - 2 THEN x
    ELSE IF tx <= ty - Precision - 2 THEN y
    ELSE RoundInt(x.m * Pow2(x.e - e) + y.m * Pow2(y.e - e), e)

FAdd(x, y) ==
    IF x.m = 0 THEN y
    ELSE IF y.m = 0 THEN x
    ELSE AddAligned(x, y, Top(x), Top(y), Min(x.e, y.e))

FSub(x, y) == FAdd(x, FNeg(y))

FMul(x, y) == RoundInt(x.m * y.m, x.e + y.e)

\* x / y for y # 0 (the callers guard y = 0: it is ZeroDivisionError).
FDiv(x, y) ==
    Signed((x.m < 0) # (y.m < 0), RoundRat(Abs(x.m), Abs(y.m), x.e - y.e))

\* |x| > |y| for non-zero floats whose leading bits are at tx and ty.
Bigger(x, y, tx, ty, e) ==
    IF tx # ty THEN tx > ty
    ELSE Abs(x.m) * Pow2(x.e - e) > Abs(y.m) * Pow2(y.e - e)

\* -1, 0, 1 as x < y, x = y, x > y.
FCmp(x, y) ==
    IF x = y THEN 0
    ELSE IF x.m <= 0 /\ y.m >= 0 THEN -1
    ELSE IF x.m >= 0 /\ y.m <= 0 THEN 1
    ELSE IF Bigger(x, y, Top(x), Top(y), Min(x.e, y.e)) = (x.m > 0) THEN 1 ELSE -1

FLe(x, y) == FCmp(x, y) <= 0

FLt(x, y) == FCmp(x, y) < 0

FAbs(x) == [m |-> Abs(x.m), e |-> x.e]

RECURSIVE ISqrt(_, _, _)
ISqrt(n, r, b) ==
    IF b = 0 THEN r
    ELSE IF (r + b) * (r + b) <= n THEN ISqrt(n, r + b, b \div 2)
    ELSE ISqrt(n, r, b \div 2)

\* The square root of n * 2^(2h), n scaled to carry the bits the rounding
\* needs: s is the integer square root of n.
SqrtRounded(n, h, s) == Signed(FALSE, RoundNat(s, h, s * s # n))

\* The square root of x.m * 2^x.e with x.m scaled by 2^j, x.e - j even.
SqrtScaled(x, j) ==
    SqrtRounded(x.m * Pow2(j), (x.e - j) \div 2,
                ISqrt(x.m * Pow2(j), 0, Pow2(Precision + 3)))

\* math.sqrt of a float x >= 0, correctly rounded.
FSqrt(x) ==
    IF x.m = 0 THEN Zero
    ELSE SqrtScaled(x, (2 * Precision + 4 - BitLen(x.m))
                       + ((x.e - (2 * Precision + 4 - BitLen(x.m))) % 2))

\* The literal 1e-10 of filter.py (10^10 exceeds TLC's integers: 1e-5 squared).
Epsilon == FMul(Lit(1, 100000), Lit(1, 100000))

QuarterPi == Lit(7854, 10000)

HalfPi == Lit(15708, 10000)

\* math.atan2(y, x) for x > 0, on the arguments the accelerometer vectors of
\* the model produce: y = 0, |y| = x, and x = Epsilon with |y| >= 1.
Atan2(y, x) ==
    CASE y.m = 0 -> Zero
      [] y.m # 0 /\ FAbs(y) = x -> IF y.m > 0 THEN QuarterPi ELSE FNeg(QuarterPi)
      [] y.m # 0 /\ x = Epsilon -> IF y.m > 0 THEN HalfPi ELSE FNeg(HalfPi)

(* ------------------------------- time --------------------------------- *)

TICKS_PERIOD == 1073741824

ticks_ms(t) == t % TICKS_PERIOD

ticks_diff(a, b) ==
    ((a - b + TICKS_PERIOD \div 2) % TICKS_PERIOD) - TICKS_PERIOD \div 2

(* ------------------------------ values -------------------------------- *)

None == <<>>

Some(v) == <<v>>

Vec(x, y, z) == [x |-> x, y |-> y, z |-> z]

ZeroVec == Vec(Zero, Zero, Zero)

\* The return value of a call: a dict of angles, None, a bool, a vector, or
\* an exception that leaves the call.
NoRet == [kind |-> "void", pitch |-> Zero, roll |-> Zero, ok |-> FALSE,
          vec |-> ZeroVec, exc |-> ""]

RetAngles(a) == [NoRet EXCEPT !.kind = "angles", !.pitch = a.pitch, !.roll = a.roll]

RetNone == [NoRet EXCEPT !.kind = "none"]

RetBool(b) == [NoRet EXCEPT !.kind = "bool", !.ok = b]

RetVec(v) == [NoRet EXCEPT !.kind = "vec", !.vec = v]

Raise(exc) == [NoRet EXCEPT !.kind = "raise", !.exc = exc]

(* --------------------- filter.py: ComplementaryFilter ----------------- *)

\* 0 < w < 1: the endpoints refused.
InRangeOpen(w) == FLt(Zero, w) /\ FLt(w, One)

\* 0 <= w <= 1
InRange(w) == FLe(Zero, w) /\ FLe(w, One)

\* set_weights with the axis-specific values applied before the uniform one.
set_weights_uniform_last(f, gyro_weight, pitch_weight, roll_weight) ==
    IF \/ gyro_weight # None /\ ~InRange(gyro_weight[1])
       \/ pitch_weight # None /\ ~InRange(pitch_weight[1])
       \/ roll_weight # None /\ ~InRange(roll_weight[1])
    THEN [f |-> f, ret |-> RetBool(FALSE)]
    ELSE
    LET f1 == IF pitch_weight # None THEN [f EXCEPT !.pitch_weight = pitch_weight] ELSE f
        f2 == IF roll_weight # None THEN [f1 EXCEPT !.roll_weight = roll_weight] ELSE f1
        f3 == IF gyro_weight # None
              THEN [f2 EXCEPT !.pitch_weight = gyro_weight, !.roll_weight = gyro_weight]
              ELSE f2
    IN  [f |-> f3, ret |-> RetBool(TRUE)]

\* The roll_weight argument of set_weights, on the filter f2 the earlier
\* arguments have left.
set_roll_weight(f2, roll_weight) ==
    IF roll_weight = None THEN [f |-> f2, ret |-> RetBool(TRUE)]
    ELSE IF ~InRange(roll_weight[1]) THEN [f |-> f2, ret |-> RetBool(FALSE)]
    ELSE [f |-> [f2 EXCEPT !.roll_weight = roll_weight], ret |-> RetBool(TRUE)]

\* The pitch_weight argument of set_weights, then the roll_weight one.
set_pitch_weight(f1, pitch_weight, roll_weight) ==
    IF pitch_weight = None THEN set_roll_weight(f1, roll_weight)
    ELSE IF ~InRange(pitch_weight[1]) THEN [f |-> f1, ret |-> RetBool(FALSE)]
    ELSE set_roll_weight([f1 EXCEPT !.pitch_weight = pitch_weight], roll_weight)

\* set_weights: the arguments are None or Some(w); a weight of the filter is
\* None while the attribute has never been assigned.
set_weights(f, gyro_weight, pitch_weight, roll_weight) ==
    IF gyro_weight = None THEN set_pitch_weight(f, pitch_weight, roll_weight)
    ELSE IF ~InRange(gyro_weight[1]) THEN [f |-> f, ret |-> RetBool(FALSE)]
    ELSE set_pitch_weight([f EXCEPT !.pitch_weight = gyro_weight,
                                    !.roll_weight = gyro_weight],
                          pitch_weight, roll_weight)

\* __init__(update_rate, gyro_weight) at ticks value now.
FilterInit(update_rate, gyro_weight, now) ==
    LET blank == [update_rate |-> update_rate,
                  pitch_weight |-> None, roll_weight |-> None,
                  pitch |-> Zero, roll |-> Zero,
                  last_update |-> now,
                  dt |-> FDiv(One, FromInt(update_rate))]
    IN  set_weights(blank, gyro_weight, None, None).f

\* A denominator nearer to zero than epsilon becomes epsilon, with its sign.
clamp(denominator) ==
    IF FLt(FAbs(denominator), Epsilon)
    THEN (IF FLe(Zero, denominator) THEN Epsilon ELSE FNeg(Epsilon))
    ELSE denominator

\* The pitch angle taken from the Z axis instead of the X axis.
get_accel_pitch_from_z(accel) ==
    Atan2(FNeg(accel.z),
          clamp(FSqrt(FAdd(FMul(accel.x, accel.x), FMul(accel.y, accel.y)))))

get_accel_pitch(accel) ==
    Atan2(FNeg(accel.x),
          clamp(FSqrt(FAdd(FMul(accel.y, accel.y), FMul(accel.z, accel.z)))))

get_accel_roll(accel) ==
    Atan2(accel.y,
          clamp(FSqrt(FAdd(FMul(accel.x, accel.x), FMul(accel.z, accel.z)))))

get_angles(f) == [pitch |-> f.pitch, roll |-> f.roll]

\* The measured step, or self.dt when it is not positive.
Positive(f, measured) == IF FLe(measured, Zero) THEN f.dt ELSE measured

\* The time step update integrates: the dt given, or the measured one, or
\* self.dt when the measured one is not positive.
StepDt(f, dt, now) ==
    IF dt = None
    THEN Positive(f, FDiv(FromInt(ticks_diff(now, f.last_update)), FromInt(1000)))
    ELSE dt[1]

\* Blend with the accelerometer angle taken whole, not weighted by 1 - weight.
BlendUnweighted(weight, angle, rate, dt, accel_angle) ==
    FAdd(FMul(weight, FAdd(angle, FMul(rate, dt))), accel_angle)

Blend(weight, angle, rate, dt, accel_angle) ==
    FAdd(FMul(weight, FAdd(angle, FMul(rate, dt))),
         FMul(FSub(One, weight), accel_angle))

\* The end of update: the angles of the filter are returned.
update_return(f3) == [f |-> f3, ret |-> RetAngles(get_angles(f3))]

\* The roll assignment of update, on the filter f2 the pitch assignment left.
update_roll(f2, gyro, accel_roll) ==
    IF f2.roll_weight = None
    THEN [f |-> f2, ret |-> Raise("AttributeError")]
    ELSE update_return([f2 EXCEPT !.roll =
             Blend(f2.roll_weight[1], f2.roll, gyro.x, f2.dt, accel_roll)])

\* The pitch assignment integrating the rate about the X axis.
update_pitch_about_x(f1, gyro, accel_pitch, accel_roll) ==
    IF f1.pitch_weight = None
    THEN [f |-> f1, ret |-> Raise("AttributeError")]
    ELSE update_roll([f1 EXCEPT !.pitch =
             Blend(f1.pitch_weight[1], f1.pitch, gyro.x, f1.dt, accel_pitch)],
             gyro, accel_roll)

\* The pitch assignment of update, on the filter f1 with its timing fields
\* stored, then the roll assignment.
update_pitch(f1, gyro, accel_pitch, accel_roll) ==
    IF f1.pitch_weight = None
    THEN [f |-> f1, ret |-> Raise("AttributeError")]
    ELSE update_roll([f1 EXCEPT !.pitch =
             Blend(f1.pitch_weight[1], f1.pitch, gyro.y, f1.dt, accel_pitch)],
             gyro, accel_roll)

\* update(accel, gyro, dt) at ticks value now; reading a weight that was
\* never assigned raises AttributeError after the timing fields are stored.
update(f, accel, gyro, dt, now) ==
    update_pitch([f EXCEPT !.last_update = now, !.dt = StepDt(f, dt, now)],
                 gyro, get_accel_pitch(accel), get_accel_roll(accel))

\* A reset that zeroes the angles and leaves the timestamp.
reset_keeping_clock(f, now) == [f EXCEPT !.pitch = Zero, !.roll = Zero]

reset(f, now) == [f EXCEPT !.pitch = Zero, !.roll = Zero, !.last_update = now]

(* ----------------------- processor.py: OrientProcessor ---------------- *)

\* __init__(update_rate) at ticks value now (the owned filter is built by
\* FilterInit with the default gyro_weight).
ProcInit(update_rate, now) ==
    [present |-> TRUE,
     update_rate |-> update_rate,
     accel_offset |-> ZeroVec,
     gyro_offset |-> ZeroVec,
     last_update |-> now,
     min_interval |-> 1000 \div update_rate]

NoProc == [ProcInit(1, 0) EXCEPT !.present = FALSE]

\* The gate with a strict comparison.
should_update_strict(p, now) == ticks_diff(now, p.last_update) > p.min_interval

should_update(p, now) == ticks_diff(now, p.last_update) >= p.min_interval

\* The offsets added to the reading instead of subtracted.
calibrated_gyro_added(gyro, gyro_offset) ==
    Vec(FAdd(gyro.x, gyro_offset.x),
        FAdd(gyro.y, gyro_offset.y),
        FAdd(gyro.z, gyro_offset.z))

\* The gyro reading with the calibration offsets applied.
calibrated_gyro(gyro, gyro_offset) ==
    Vec(FSub(gyro.x, gyro_offset.x),
        FSub(gyro.y, gyro_offset.y),
        FSub(gyro.z, gyro_offset.z))

\* What an accepted update leaves and returns: the processor p1 and the
\* result r of the filter's update.
delegated(p1, r) == [p |-> p1, f |-> r.f, ret |-> r.ret]

\* update(accel, gyro) once should_update() has allowed it.
proc_accept(p, f, accel, gyro, now) ==
    delegated([p EXCEPT !.last_update = now],
              update(f, accel, calibrated_gyro(gyro, p.gyro_offset),
                     Some(FDiv(FromInt(ticks_diff(now, p.last_update)), FromInt(1000))),
                     now))

\* A rejected call that still re-bases the processor's clock.
proc_update_rebasing(p, f, accel, gyro, now) ==
    IF ~should_update(p, now)
    THEN [p |-> [p EXCEPT !.last_update = now], f |-> f, ret |-> RetNone]
    ELSE proc_accept(p, f, accel, gyro, now)

proc_update(p, f, accel, gyro, now) ==
    IF ~should_update(p, now)
    THEN [p |-> p, f |-> f, ret |-> RetNone]
    ELSE proc_accept(p, f, accel, gyro, now)

\* The loop of calibrate_gyro: range(samples) reads read_gyro_func() (the
\* i-th call returns source[i]) and sleeps delay_ms after each read.
RECURSIVE CalLoop(_, _, _, _, _)
CalLoop(source, samples, delay_ms, i, acc) ==
    IF i >= samples THEN acc
    ELSE LET gyro == source[i + 1]
         IN  CalLoop(source, samples, delay_ms, i + 1,
                     [sum_x |-> FAdd(acc.sum_x, gyro.x),
                      sum_y |-> FAdd(acc.sum_y, gyro.y),
                      sum_z |-> FAdd(acc.sum_z, gyro.z),
                      calls |-> acc.calls + 1,
                      slept |-> acc.slept + delay_ms])

\* The offset stored, and the baseline moved past the time the loop slept.
store_offset_rebasing(p, offset, acc) ==
    [p |-> [p EXCEPT !.gyro_offset = offset,
                     !.last_update = ticks_ms(@ + acc.slept)],
     ret |-> RetVec(offset), calls |-> acc.calls, slept |-> acc.slept]

\* The offset stored and returned after the loop.
store_offset(p, offset, acc) ==
    [p |-> [p EXCEPT !.gyro_offset = offset], ret |-> RetVec(offset),
     calls |-> acc.calls, slept |-> acc.slept]

\* The sums of the loop averaged with the previous offset.
average_blending(p, samples, acc) ==
    IF samples = 0
    THEN [p |-> p, ret |-> Raise("ZeroDivisionError"),
          calls |-> acc.calls, slept |-> acc.slept]
    ELSE store_offset(p,
             Vec(FDiv(FAdd(p.gyro_offset.x, FDiv(acc.sum_x, FromInt(samples))), FromInt(2)),
                 FDiv(FAdd(p.gyro_offset.y, FDiv(acc.sum_y, FromInt(samples))), FromInt(2)),
                 FDiv(FAdd(p.gyro_offset.z, FDiv(acc.sum_z, FromInt(samples))), FromInt(2))),
             acc)

\* The sums of the loop divided by samples; with no samples the division
\* raises ZeroDivisionError before gyro_offset is assigned.
average(p, samples, acc) ==
    IF samples = 0
    THEN [p |-> p, ret |-> Raise("ZeroDivisionError"),
          calls |-> acc.calls, slept |-> acc.slept]
    ELSE store_offset(p,
             Vec(FDiv(acc.sum_x, FromInt(samples)),
                 FDiv(acc.sum_y, FromInt(samples)),
                 FDiv(acc.sum_z, FromInt(samples))),
             acc)

\* A calibration that averages the new mean with the previous offset.
calibrate_gyro_blending(p, source, samples, delay_ms) ==
    average_blending(p, samples,
        CalLoop(source, samples, delay_ms, 0,
                [sum_x |-> Zero, sum_y |-> Zero, sum_z |-> Zero,
                 calls |-> 0, slept |-> 0]))

calibrate_gyro(p, source, samples, delay_ms) ==
    average(p, samples,
        CalLoop(source, samples, delay_ms, 0,
                [sum_x |-> Zero, sum_y |-> Zero, sum_z |-> Zero,
                 calls |-> 0, slept |-> 0]))

set_filter_weights(f, gyro_weight, pitch_weight, roll_weight) ==
    set_weights(f, gyro_weight, pitch_weight, roll_weight)

(* ------------------------------ inputs -------------------------------- *)

\* update_rate arguments: min_interval 10 ms, and 0 ms (1000 // 2000).
UpdateRates == {100, 2000}

DefaultGyroWeight == Lit(95, 100)

\* gyro_weight arguments of a filter built on its own: the default, pure
\* accelerometer, pure gyroscope, out of range.
InitWeights == {Some(DefaultGyroWeight), Some(Zero), Some(One), Some(Lit(3, 2))}

\* Arguments of set_weights: absent, the end points, inside, and outside [0, 1].
GyroWeightArgs == {None, Some(Zero), Some(Lit(1, 2)), Some(One), Some(Lit(3, 2))}

PitchWeightArgs == {None, Some(Lit(1, 4)), Some(Lit(-1, 2))}

RollWeightArgs == {None, Some(Lit(3, 4)), Some(Lit(3, 2))}

\* Arguments of set_filter_weights.
ProcWeightCalls ==
    {<<Some(Lit(1, 2)), None, None>>, <<Some(Lit(3, 2)), None, None>>,
     <<Some(Zero), Some(Lit(3, 2)), None>>, <<None, Some(One), Some(Lit(1, 4))>>,
     <<Some(One), None, Some(Lit(-1, 2))>>}

Bias == Vec(Lit(9, 10), Lit(-3, 100), Lit(1, 4))

Spin == Vec(One, FromInt(-2), Lit(1, 2))

Level == Vec(Zero, Zero, One)

Tilted == Vec(One, One, Zero)

\* Sensor readings: level and still; tilted and turning, at two rates; free
\* fall, turning.
Readings == {[accel |-> Level, gyro |-> ZeroVec],
             [accel |-> Tilted, gyro |-> Spin],
             [accel |-> Tilted, gyro |-> Bias],
             [accel |-> ZeroVec, gyro |-> Bias]}

\* Readings given to the processor: nose down and turning, tilted with the
\* rates of a still sensor.
ProcReadings == {[accel |-> Vec(One, Zero, Zero), gyro |-> Spin],
                 [accel |-> Tilted, gyro |-> Bias]}

HalfPeriod == TICKS_PERIOD \div 2

\* When update is called on a filter (d ms after the previous call) and the
\* dt it is given: omitted after 0 ms, 10 ms and half a tick period; 20 ms,
\* 10 ms, zero and negative.
FilterTimings ==
    {[d |-> 0, dt |-> None], [d |-> 10, dt |-> None], [d |-> HalfPeriod, dt |-> None],
     [d |-> 10, dt |-> Some(Lit(2, 100))], [d |-> 10, dt |-> Some(Lit(1, 100))],
     [d |-> 0, dt |-> Some(Zero)],
     [d |-> 10, dt |-> Some(Lit(-1, 100))]}

\* Milliseconds that pass before a call.
FilterDelays == {0, 10, HalfPeriod}

ProcDelays == {0, 5, 6, 10, HalfPeriod}

\* The clock stays within TLC's integers.
ClockLimit == TICKS_PERIOD + (TICKS_PERIOD - 1)

\* What read_gyro_func returns on its i-th call: a still sensor, a steadily
\* turning one, a moving one.
Sources == {[i \in 1..(MaxSamples + 1) |-> Bias],
            [i \in 1..(MaxSamples + 1) |-> Spin],
            [i \in 1..(MaxSamples + 1) |-> IF i % 2 = 1 THEN Spin ELSE Bias]}

SleepArgs == {5}

(* ------------------------------- state -------------------------------- *)

VARIABLES
    clock,      \* real milliseconds since boot
    filter,     \* the ComplementaryFilter
    proc,       \* the OrientProcessor that owns it (present = FALSE: none)
    base,       \* clock at the most recent accepted Processor.update, or at construction
    rejectedAt, \* clock at the most recent Processor.update rejected since base, or -1
    calibrated, \* whether a calibrate_gyro call has completed
    sleptSinceBase, \* milliseconds calibrate_gyro calls have slept since base
    run,        \* the Filter.update calls with dt > 0 given and one gyro vector that end here
    last,       \* the most recent call: its arguments, the state before it, its result
    steps       \* calls made

vars == <<clock, filter, proc, base, rejectedAt, calibrated, sleptSinceBase, run, last, steps>>

\* No such update has been made: the angles and the gyro vector the run began
\* with, and the dt of each of its n calls.
NoRun == [n |-> 0, pitch |-> Zero, roll |-> Zero, gyro |-> ZeroVec, dts |-> <<>>]

NoCall ==
    [op |-> "init", accel |-> ZeroVec, gyro |-> ZeroVec, dt |-> None,
     gyro_weight |-> None, pitch_weight |-> None, roll_weight |-> None,
     source |-> [i \in 1..(MaxSamples + 1) |-> ZeroVec], samples |-> 0, delay_ms |-> 0,
     filter |-> FilterInit(1, None, 0), proc |-> NoProc, clock |-> 0, base |-> 0,
     rejectedAt |-> -1, sleptSinceBase |-> 0,
     ret |-> NoRet, calls |-> 0, slept |-> 0]

\* The record of a call made at time t in the current state.
Call(op, t) ==
    [NoCall EXCEPT !.op = op, !.filter = filter, !.proc = proc, !.clock = t,
                   !.base = base, !.rejectedAt = rejectedAt,
                   !.sleptSinceBase = sleptSinceBase]

InitFilter(update_rate, gyro_weight) ==
    /\ clock = 0
    /\ filter = FilterInit(update_rate, gyro_weight, ticks_ms(0))
    /\ proc = NoProc
    /\ base = 0
    /\ rejectedAt = -1
    /\ calibrated = FALSE
    /\ sleptSinceBase = 0
    /\ run = NoRun
    /\ last = [NoCall EXCEPT !.filter = filter, !.gyro_weight = gyro_weight]
    /\ steps = 0

InitProcessor(update_rate) ==
    /\ clock = 0
    /\ filter = FilterInit(update_rate, Some(DefaultGyroWeight), ticks_ms(0))
    /\ proc = ProcInit(update_rate, ticks_ms(0))
    /\ base = 0
    /\ rejectedAt = -1
    /\ calibrated = FALSE
    /\ sleptSinceBase = 0
    /\ run = NoRun
    /\ last = [NoCall EXCEPT !.filter = filter, !.proc = proc,
                             !.gyro_weight = Some(DefaultGyroWeight)]
    /\ steps = 0

Init ==
    \E update_rate \in UpdateRates :
        \/ InitProcessor(update_rate)
        \/ \E gyro_weight \in InitWeights : InitFilter(update_rate, gyro_weight)

(* ------------------------------ actions ------------------------------- *)

FilterSetWeights(gyro_weight, pitch_weight, roll_weight) ==
    /\ steps < MaxFilterCalls
    /\ ~proc.present
    /\ \E r \in {set_weights(filter, gyro_weight, pitch_weight, roll_weight)} :
           /\ filter' = r.f
           /\ last' = [Call("set_weights", clock) EXCEPT
                          !.gyro_weight = gyro_weight, !.pitch_weight = pitch_weight,
                          !.roll_weight = roll_weight, !.ret = r.ret]
    /\ run' = NoRun
    /\ steps' = steps + 1
    /\ UNCHANGED <<clock, proc, base, rejectedAt, calibrated, sleptSinceBase>>

FilterUpdate(d, accel, gyro, dt) ==
    /\ steps < MaxFilterCalls
    /\ ~proc.present
    /\ d <= ClockLimit - clock
    /\ clock' = clock + d
    /\ \E r \in {update(filter, accel, gyro, dt, ticks_ms(clock'))} :
           /\ filter' = r.f
           /\ last' = [Call("update", clock') EXCEPT
                          !.accel = accel, !.gyro = gyro, !.dt = dt, !.ret = r.ret]
           /\ run' = IF dt = None \/ r.ret.kind # "angles" THEN NoRun
                      ELSE IF ~FLt(Zero, dt[1]) THEN NoRun
                      ELSE IF run.n > 0 /\ run.gyro = gyro
                           THEN [run EXCEPT !.n = @ + 1, !.dts = Append(@, dt[1])]
                           ELSE [n |-> 1, pitch |-> filter.pitch, roll |-> filter.roll,
                                 gyro |-> gyro, dts |-> <<dt[1]>>]
    /\ steps' = steps + 1
    /\ UNCHANGED <<proc, base, rejectedAt, calibrated, sleptSinceBase>>

FilterReset(d) ==
    /\ steps < MaxFilterCalls
    /\ ~proc.present
    /\ d <= ClockLimit - clock
    /\ clock' = clock + d
    /\ filter' = reset(filter, ticks_ms(clock'))
    /\ last' = Call("reset", clock')
    /\ run' = NoRun
    /\ steps' = steps + 1
    /\ UNCHANGED <<proc, base, rejectedAt, calibrated, sleptSinceBase>>

ProcUpdate(d, accel, gyro) ==
    /\ steps < MaxProcCalls
    /\ proc.present
    /\ d <= ClockLimit - clock
    /\ clock' = clock + d
    /\ \E r \in {proc_update(proc, filter, accel, gyro, ticks_ms(clock'))} :
           /\ proc' = r.p
           /\ filter' = r.f
           /\ base' = IF r.ret.kind = "none" THEN base ELSE clock'
           /\ rejectedAt' = IF r.ret.kind = "none" THEN clock' ELSE -1
           /\ sleptSinceBase' = IF r.ret.kind = "none" THEN sleptSinceBase ELSE 0
           /\ last' = [Call("proc_update", clock') EXCEPT
                          !.accel = accel, !.gyro = gyro, !.ret = r.ret]
    /\ steps' = steps + 1
    /\ UNCHANGED <<calibrated, run>>

CalibrateGyro(source, samples, delay_ms) ==
    /\ steps < MaxProcCalls
    /\ proc.present
    /\ \E r \in {calibrate_gyro(proc, source, samples, delay_ms)} :
           /\ r.slept <= ClockLimit - clock
           /\ proc' = r.p
           /\ clock' = clock + r.slept
           /\ calibrated' = (calibrated \/ r.ret.kind = "vec")
           /\ sleptSinceBase' = sleptSinceBase + r.slept
           /\ last' = [Call("calibrate_gyro", clock) EXCEPT
                          !.source = source, !.samples = samples,
                          !.delay_ms = delay_ms, !.ret = r.ret,
                          !.calls = r.calls, !.slept = r.slept]
    /\ steps' = steps + 1
    /\ UNCHANGED <<filter, base, rejectedAt, run>>

SetFilterWeights(gyro_weight, pitch_weight, roll_weight) ==
    /\ steps < MaxProcCalls
    /\ proc.present
    /\ \E r \in {set_filter_weights(filter, gyro_weight, pitch_weight, roll_weight)} :
           /\ filter' = r.f
           /\ last' = [Call("set_filter_weights", clock) EXCEPT
                          !.gyro_weight = gyro_weight, !.pitch_weight = pitch_weight,
                          !.roll_weight = roll_weight, !.ret = r.ret]
    /\ steps' = steps + 1
    /\ UNCHANGED <<clock, proc, base, rejectedAt, calibrated, sleptSinceBase, run>>

Next ==
    \/ \E gw \in GyroWeightArgs, pw \in PitchWeightArgs, rw \in RollWeightArgs :
           FilterSetWeights(gw, pw, rw)
    \/ \E t \in FilterTimings, r \in Readings :
           FilterUpdate(t.d, r.accel, r.gyro, t.dt)
    \/ \E d \in FilterDelays : FilterReset(d)
    \/ \E d \in ProcDelays, r \in ProcReadings : ProcUpdate(d, r.accel, r.gyro)
    \/ \E source \in Sources, samples \in 0..MaxSamples, delay_ms \in SleepArgs :
           CalibrateGyro(source, samples, delay_ms)
    \/ \E w \in ProcWeightCalls : SetFilterWeights(w[1], w[2], w[3])

Spec == Init /\ [][Next]_vars

(* ------------------------------ claims -------------------------------- *)

\* The call recorded in last, read back.
IsFilterUpdate == last.op = "update"

IsProcUpdate == last.op = "proc_update"

IsSetWeights == last.op \in {"set_weights", "set_filter_weights"}

IsCalibrate == last.op = "calibrate_gyro"

Accepted == IsProcUpdate /\ last.ret.kind # "none"

Rejected == IsProcUpdate /\ last.ret.kind = "none"

\* Real milliseconds between the baseline and the call.
Elapsed == last.clock - last.base

\* The ticks value the call read.
Now == ticks_ms(last.clock)

WeightsAssigned(f) == f.pitch_weight # None /\ f.roll_weight # None

\* w * (angle + rate * dt) + (1 - w) * accel_angle, in the program's arithmetic.
Fused(w, angle, rate, dt, accel_angle) ==
    FAdd(FMul(w, FAdd(angle, FMul(rate, dt))), FMul(FSub(One, w), accel_angle))

\* C1: an update with an explicit dt, on a filter whose weights are assigned,
\* sets pitch to pitch_weight * (old_pitch + gyro.y * dt) + (1 - pitch_weight)
\* * accel_pitch and roll to the same with roll_weight, old_roll and gyro.x,
\* and returns that pair; with both weights 0 the new angles are the
\* accelerometer's.
C1_UpdateBlendsGyroAndAccel ==
    (IsFilterUpdate /\ last.dt # None /\ WeightsAssigned(last.filter)) =>
        LET old == last.filter
            dt == last.dt[1]
            accel_pitch == get_accel_pitch(last.accel)
            accel_roll == get_accel_roll(last.accel)
            pitch == Fused(old.pitch_weight[1], old.pitch, last.gyro.y, dt, accel_pitch)
            roll == Fused(old.roll_weight[1], old.roll, last.gyro.x, dt, accel_roll)
        IN  /\ filter.pitch = pitch
            /\ filter.roll = roll
            /\ last.ret = RetAngles([pitch |-> pitch, roll |-> roll])
            /\ (old.pitch_weight = Some(Zero) /\ old.roll_weight = Some(Zero)) =>
                   (filter.pitch = accel_pitch /\ filter.roll = accel_roll)

\* C1 witness: an update with dt given has blended non-zero old angles, a
\* non-zero rate and a non-zero accelerometer angle at the default weight.
C1_Witness ==
    /\ IsFilterUpdate /\ last.dt # None
    /\ FLt(Zero, last.dt[1])
    /\ last.filter.pitch # Zero /\ last.filter.roll # Zero
    /\ last.gyro.x # Zero /\ last.gyro.y # Zero
    /\ last.filter.pitch_weight = Some(DefaultGyroWeight)
    /\ last.filter.roll_weight = Some(DefaultGyroWeight)
    /\ get_accel_pitch(last.accel) # Zero /\ get_accel_roll(last.accel) # Zero
    /\ filter.pitch # last.filter.pitch /\ filter.roll # last.filter.roll

\* The difference of the ticks values of the call and of the stored baseline.
Measured == ticks_diff(Now, last.proc.last_update)

\* C2 as claimed: a Processor.update is accepted if and only if at least
\* min_interval milliseconds have passed since the baseline, at any clock times.
C2_AcceptedIffElapsed ==
    IsProcUpdate => (Accepted <=> Elapsed >= last.proc.min_interval)

\* C2, amended: the stored baseline is the ticks value of the most recent
\* accepted update (or of construction); a call is accepted if and only if
\* ticks_diff(now, baseline) >= min_interval, which is "at least
\* min_interval ms have passed" while less than half a tick period has
\* passed; an accepted call is at least min_interval after the baseline; a
\* rejected call moves no baseline; at rate 100 a call 5 ms after the
\* baseline is rejected and one 11 ms after it is accepted.
C2_GateOnTickDifference ==
    /\ proc.present => proc.last_update = ticks_ms(base)
    /\ IsProcUpdate =>
        /\ Accepted <=> Measured >= last.proc.min_interval
        /\ Elapsed < HalfPeriod => (Accepted <=> Elapsed >= last.proc.min_interval)
        /\ Accepted => Elapsed >= last.proc.min_interval
        /\ Rejected => (proc.last_update = last.proc.last_update /\ base = last.base)
        /\ last.proc.update_rate = 100 =>
            /\ last.proc.min_interval = 10
            /\ Elapsed = 5 => Rejected
            /\ Elapsed = 11 => Accepted

\* C2 witness: at rate 100 an update was accepted at 10 ms, a call 5 ms later
\* was rejected, and the call 6 ms after that one is accepted.
C2_Witness ==
    /\ Accepted
    /\ last.proc.update_rate = 100
    /\ last.base = 10
    /\ last.rejectedAt = 15
    /\ last.clock = 21
    /\ proc.last_update = 21

\* C3: a Processor.update called while should_update() is false returns None
\* and changes nothing: the processor's last_update and gyro_offset and the
\* filter's angles, weights, last_update and dt are as before the call.
C3_RejectedUpdateChangesNothing ==
    (IsProcUpdate /\ ~(Measured >= last.proc.min_interval)) =>
        /\ last.ret = RetNone
        /\ proc = last.proc
        /\ filter = last.filter

\* C3 witness: a call 5 ms after an accepted update was rejected, on a
\* calibrated processor whose filter holds non-zero angles and an older
\* timestamp.
C3_Witness ==
    /\ Rejected
    /\ Elapsed = 5
    /\ last.base > 0
    /\ proc.gyro_offset # ZeroVec
    /\ filter.pitch # Zero /\ filter.roll # Zero
    /\ filter.last_update # Now

\* C4: an accepted Processor.update stores the current ticks value in
\* last_update and updates the filter with the reading minus gyro_offset and
\* with dt = ticks_diff(now, baseline) / 1000: pitch becomes pitch_weight *
\* (old_pitch + (gyro.y - gyro_offset.y) * dt) + (1 - pitch_weight) *
\* accel_pitch, roll the same with x; only calibrate_gyro changes gyro_offset.
C4_AcceptedUpdateIntegratesCorrectedGyro ==
    /\ Accepted =>
        LET old == last.filter
            offset == last.proc.gyro_offset
            dt == FDiv(FromInt(Measured), FromInt(1000))
            pitch == Fused(old.pitch_weight[1], old.pitch,
                           FSub(last.gyro.y, offset.y), dt, get_accel_pitch(last.accel))
            roll == Fused(old.roll_weight[1], old.roll,
                          FSub(last.gyro.x, offset.x), dt, get_accel_roll(last.accel))
        IN  /\ proc.last_update = Now
            /\ filter.last_update = Now
            /\ Elapsed < HalfPeriod => Measured = Elapsed
            /\ filter.dt = dt
            /\ filter.pitch = pitch
            /\ filter.roll = roll
            /\ last.ret = RetAngles([pitch |-> pitch, roll |-> roll])
    /\ ~IsCalibrate => proc.gyro_offset = last.proc.gyro_offset

\* C4 witness: after a calibration an update was accepted and integrated a
\* rate that differs from the raw reading.
C4_Witness ==
    /\ Accepted
    /\ calibrated
    /\ last.proc.gyro_offset.y # Zero /\ last.proc.gyro_offset.x # Zero
    /\ FSub(last.gyro.y, last.proc.gyro_offset.y) # Zero
    /\ Measured > 0
    /\ filter.pitch # last.filter.pitch /\ filter.roll # last.filter.roll

Axes == {"x", "y", "z"}

\* The first k readings of a source summed in call order, each addition rounded.
RECURSIVE RunningSum(_, _, _)
RunningSum(source, k, axis) ==
    IF k = 0 THEN Zero ELSE FAdd(RunningSum(source, k - 1, axis), source[k][axis])

\* The mean of the first n readings as the program's arithmetic gives it.
FloatMean(source, n) ==
    Vec(FDiv(RunningSum(source, n, "x"), FromInt(n)),
        FDiv(RunningSum(source, n, "y"), FromInt(n)),
        FDiv(RunningSum(source, n, "z"), FromInt(n)))

ConstantSource == \A i \in 1..last.samples : last.source[i] = last.source[1]

\* k * x is a float: nothing is lost when x is added k times.
ExactMultiple(x, k) == Abs(Norm(k * x.m, x.e).m) < Pow2(Precision)

\* C5 as claimed: a source that returns the same vector on every call and any
\* sample_count >= 1 leave gyro_offset exactly that vector.
C5_ConstantSourceGivesExactBias ==
    (IsCalibrate /\ last.samples >= 1 /\ ConstantSource) =>
        proc.gyro_offset = last.source[1]

\* C5, amended: gyro_offset is the zero vector until a calibration
\* completes; a calibrate_gyro call with sample_count >= 1 reads the source
\* exactly sample_count times and sets (and returns) gyro_offset to the mean
\* of those readings as floating point computes it (summed in call order,
\* then divided), whatever the offset was before; for a constant source that
\* mean is the vector itself when sample_count <= 2 or every multiple k * b,
\* k <= sample_count, is representable.
C5_OffsetIsFloatMeanOfLastCalibration ==
    /\ (proc.present /\ ~calibrated) => proc.gyro_offset = ZeroVec
    /\ IsCalibrate => last.calls = last.samples
    /\ (IsCalibrate /\ last.samples >= 1) =>
        LET n == last.samples
            mean == FloatMean(last.source, n)
        IN  /\ proc.gyro_offset = mean
            /\ last.ret = RetVec(mean)
            /\ (ConstantSource /\ n <= 2) => proc.gyro_offset = last.source[1]
            /\ (ConstantSource /\ \A k \in 1..n, a \in Axes :
                                      ExactMultiple(last.source[1][a], k))
                   => proc.gyro_offset = last.source[1]

\* C5 witness: a second calibration, of two equal readings, replaced the
\* offset of the first with exactly that reading.
C5_Witness ==
    /\ IsCalibrate
    /\ last.samples = 2
    /\ ConstantSource
    /\ last.proc.gyro_offset # ZeroVec
    /\ last.proc.gyro_offset # last.source[1]
    /\ proc.gyro_offset = last.source[1]
    /\ last.calls = 2

\* The update reached the blend: it returned angles.
Integrated == (IsFilterUpdate \/ IsProcUpdate) /\ last.ret.kind = "angles"

\* The nominal period 1 / update_rate of the filter.
NominalPeriod == FDiv(One, FromInt(filter.update_rate))

\* The step of the blend that took last.filter to filter, for a Filter.update.
FilterStep == StepDt(last.filter, last.dt, Now)

\* C6 as claimed: the time step integrated into pitch and roll is strictly
\* positive on every path: Filter.update with dt omitted or given, and an
\* accepted Processor.update at any update_rate.
C6_IntegratedDtIsPositive ==
    Integrated =>
        LET dt == IF IsFilterUpdate
                  THEN FilterStep
                  ELSE FDiv(FromInt(Measured), FromInt(1000))
        IN  /\ filter.dt = dt
            /\ FLt(Zero, dt)

\* C7 as claimed: an update with dt omitted whose measured step is <= 0
\* integrates the nominal period 1 / update_rate, whatever calls came before.
C7_FallbackIsNominalPeriod ==
    (Integrated /\ IsFilterUpdate /\ last.dt = None
        /\ ticks_diff(Now, last.filter.last_update) <= 0) =>
        /\ FilterStep = NominalPeriod
        /\ filter.dt = NominalPeriod

\* An argument of the recorded set_weights call is given and outside [0, 1].
OutOfRange(arg) == arg # None /\ ~(FLe(Zero, arg[1]) /\ FLe(arg[1], One))

SuppliedWeights == {last.gyro_weight, last.pitch_weight, last.roll_weight}

\* C8 as claimed: a set_weights or set_filter_weights call with any supplied
\* argument outside [0, 1] returns failure and leaves both weights as they
\* were.
C8_InvalidCallChangesNoWeight ==
    (IsSetWeights /\ \E arg \in SuppliedWeights : OutOfRange(arg)) =>
        /\ last.ret = RetBool(FALSE)
        /\ filter.pitch_weight = last.filter.pitch_weight
        /\ filter.roll_weight = last.filter.roll_weight

\* C9: set_weights(w) with 0 <= w <= 1 and no axis-specific argument returns
\* True and leaves pitch_weight = roll_weight = w, every other field of the
\* filter (angles, last_update, dt) as it was.
C9_UniformWeightSetsBoth ==
    (IsSetWeights /\ last.gyro_weight # None /\ ~OutOfRange(last.gyro_weight)
        /\ last.pitch_weight = None /\ last.roll_weight = None) =>
        /\ last.ret = RetBool(TRUE)
        /\ filter = [last.filter EXCEPT !.pitch_weight = last.gyro_weight,
                                        !.roll_weight = last.gyro_weight]

\* C9 witness: the endpoint weight 1 replaced another weight on a filter that
\* had already been updated to non-zero angles.
C9_Witness ==
    /\ IsSetWeights
    /\ last.gyro_weight = Some(One)
    /\ last.pitch_weight = None /\ last.roll_weight = None
    /\ last.filter.pitch_weight # Some(One)
    /\ last.filter.pitch # Zero /\ last.filter.roll # Zero
    /\ filter.pitch_weight = Some(One) /\ filter.roll_weight = Some(One)

\* The weight an axis ends with: its own argument, else the uniform one, else
\* the previous value.
Chosen(specific, uniform, previous) ==
    IF specific # None THEN specific
    ELSE IF uniform # None THEN uniform
    ELSE previous

\* C10: a set_weights call whose supplied arguments are all within [0, 1]
\* returns True and leaves pitch_weight = pitch_weight argument if given, else
\* gyro_weight if given, else its previous value, and roll_weight likewise.
C10_SpecificWeightsWin ==
    (IsSetWeights /\ \A arg \in SuppliedWeights : ~OutOfRange(arg)) =>
        /\ last.ret = RetBool(TRUE)
        /\ filter.pitch_weight =
               Chosen(last.pitch_weight, last.gyro_weight, last.filter.pitch_weight)
        /\ filter.roll_weight =
               Chosen(last.roll_weight, last.gyro_weight, last.filter.roll_weight)

\* C10 witness: a call gave a uniform weight and a different pitch weight,
\* both valid, and no roll weight: pitch took its own, roll the uniform one.
C10_Witness ==
    /\ IsSetWeights
    /\ last.gyro_weight # None /\ last.pitch_weight # None /\ last.roll_weight = None
    /\ last.gyro_weight # last.pitch_weight
    /\ ~OutOfRange(last.gyro_weight) /\ ~OutOfRange(last.pitch_weight)
    /\ filter.pitch_weight = last.pitch_weight
    /\ filter.roll_weight = last.gyro_weight
    /\ last.filter.roll_weight # last.gyro_weight

\* C11 as claimed: in every state of a filter, whatever gyro_weight it was
\* constructed with and whatever calls followed, pitch_weight and roll_weight
\* are both defined and within [0, 1].
C11_WeightsDefinedAndInRange ==
    /\ WeightsAssigned(filter)
    /\ ~OutOfRange(filter.pitch_weight)
    /\ ~OutOfRange(filter.roll_weight)

\* C12 as claimed: no operation of the filter or of the processor raises:
\* every call returns normally, also update on a filter constructed with an
\* out-of-range gyro_weight, update with the accelerometer at (0, 0, 0), and
\* calibrate_gyro with no samples.
C12_NoOperationRaises == last.ret.kind # "raise"

IsReset == last.op = "reset"

\* C13: after reset(), whatever the filter held, get_angles() returns (0, 0),
\* last_update is the current ticks value, and pitch_weight and roll_weight
\* (and every other field) are as before the reset.
C13_ResetZeroesAnglesAndRebases ==
    IsReset =>
        /\ get_angles(filter) = [pitch |-> Zero, roll |-> Zero]
        /\ filter.last_update = Now
        /\ filter.pitch_weight = last.filter.pitch_weight
        /\ filter.roll_weight = last.filter.roll_weight
        /\ filter = [last.filter EXCEPT !.pitch = Zero, !.roll = Zero,
                                        !.last_update = Now]

\* C13 witness: a reset 10 ms after an update cleared non-zero angles and
\* moved the timestamp.
C13_Witness ==
    /\ IsReset
    /\ last.filter.pitch # Zero /\ last.filter.roll # Zero
    /\ WeightsAssigned(filter)
    /\ last.filter.last_update # Now
    /\ filter.pitch = Zero /\ filter.roll = Zero
    /\ filter.last_update = Now

\* start + rate * d_1 + ... + rate * d_k as successive updates compute it:
\* each product and each sum rounded.
RECURSIVE Accumulated(_, _, _, _)
Accumulated(start, rate, dts, k) ==
    IF k = 0 THEN start
    ELSE FAdd(Accumulated(start, rate, dts, k - 1), FMul(rate, dts[k]))

\* d_1 + ... + d_k, each sum rounded.
RECURSIVE SumDt(_, _)
SumDt(dts, k) == IF k = 0 THEN Zero ELSE FAdd(SumDt(dts, k - 1), dts[k])

PurePitch == run.n > 0 /\ filter.pitch_weight = Some(One)

PureRoll == run.n > 0 /\ filter.roll_weight = Some(One)

\* C14 as claimed: with weight 1 and a constant rate, after n updates with
\* positive dt values d_1..d_n the angle equals the starting angle plus
\* rate * (d_1 + ... + d_n).
C14_PureGyroEqualsRateTimesTotal ==
    /\ PurePitch =>
           filter.pitch = FAdd(run.pitch, FMul(run.gyro.y, SumDt(run.dts, run.n)))
    /\ PureRoll =>
           filter.roll = FAdd(run.roll, FMul(run.gyro.x, SumDt(run.dts, run.n)))

\* C14, amended: with pitch_weight = 1 and a constant rate g_y, each update
\* with a positive dt d adds the rounded product g_y * d to pitch whatever the
\* accelerometer vector is, so after n such updates pitch is the starting
\* pitch plus g_y * d_1, ..., g_y * d_n added one by one in floating point:
\* start + g_y * (d_1 + ... + d_n) up to rounding, and exactly that for n = 1;
\* symmetrically roll with roll_weight = 1 and gyro.x.
C14_PureGyroAccumulatesEachStep ==
    /\ PurePitch =>
        /\ filter.pitch = Accumulated(run.pitch, run.gyro.y, run.dts, run.n)
        /\ run.n = 1 =>
               filter.pitch = FAdd(run.pitch, FMul(run.gyro.y, SumDt(run.dts, 1)))
    /\ PureRoll =>
        /\ filter.roll = Accumulated(run.roll, run.gyro.x, run.dts, run.n)
        /\ run.n = 1 =>
               filter.roll = FAdd(run.roll, FMul(run.gyro.x, SumDt(run.dts, 1)))
    /\ (IsFilterUpdate /\ run.n > 0 /\ last.filter.pitch_weight = Some(One)) =>
           filter.pitch = FAdd(last.filter.pitch, FMul(last.gyro.y, last.dt[1]))
    /\ (IsFilterUpdate /\ run.n > 0 /\ last.filter.roll_weight = Some(One)) =>
           filter.roll = FAdd(last.filter.roll, FMul(last.gyro.x, last.dt[1]))

\* C14 witness: two updates in pure-gyro mode with different dt values and a
\* tilted accelerometer have moved pitch and roll by the accumulated rates.
C14_Witness ==
    /\ PurePitch /\ PureRoll
    /\ run.n = 2
    /\ run.dts[1] # run.dts[2]
    /\ run.gyro.y # Zero /\ run.gyro.x # Zero
    /\ last.accel = Tilted
    /\ filter.pitch # run.pitch /\ filter.roll # run.roll
    /\ filter.pitch # get_accel_pitch(last.accel)

\* An update with the accelerometer level, (0, 0, g), and the gyro at rest
\* has returned angles.
LevelUpdate ==
    /\ IsFilterUpdate
    /\ last.accel = Level /\ last.gyro = ZeroVec
    /\ last.ret.kind = "angles"

Scaled(w, old, new) ==
    /\ new = FMul(w, old)
    /\ FLe(FAbs(new), FAbs(old))
    /\ w = One => new = old
    /\ w = Zero => new = Zero
    /\ (FLe(w, DefaultGyroWeight) /\ old # Zero) => FLt(FAbs(new), FAbs(old))

C16_CalibrationKeepsBaseline ==
    /\ IsCalibrate =>
        /\ proc = [last.proc EXCEPT !.gyro_offset = proc.gyro_offset]
        /\ proc.last_update = ticks_ms(last.base)
        /\ filter = last.filter
        /\ base = last.base
        /\ last.ret.kind = "vec" => clock = last.clock + last.samples * last.delay_ms
        /\ last.ret.kind = "raise" => (clock = last.clock /\ proc = last.proc)
        /\ sleptSinceBase = last.sleptSinceBase + last.samples * last.delay_ms
    /\ (Accepted /\ last.sleptSinceBase > 0) =>
        /\ Measured = ticks_diff(Now, ticks_ms(last.base))
        /\ filter.dt = FDiv(FromInt(Measured), FromInt(1000))
        /\ Elapsed >= last.sleptSinceBase
        /\ Elapsed < HalfPeriod =>
            /\ Measured = Elapsed
            /\ Measured >= last.sleptSinceBase

\* C16 witness: an update was accepted at 10 ms, a calibration of three
\* samples slept 15 ms, and the update called right after it is accepted
\* with dt = 0.015 s: the calibration's duration and nothing else.
C16_Witness ==
    /\ Accepted
    /\ last.proc.update_rate = 100
    /\ last.base = 10
    /\ last.sleptSinceBase = 15
    /\ last.clock = 25
    /\ last.proc.gyro_offset # ZeroVec
    /\ filter.dt = FDiv(FromInt(15), FromInt(1000))

====
